---- MODULE Spec2Model ----
(***************************************************************************)
(* Subscription pipeline of Dif_API: receipt validation, status read, the  *)
(* purchased / expired / refunded notification handlers, webhook signature *)
(* verification and the webhook endpoint with its middleware chain.        *)
(*                                                                         *)
(* The subscriptions table and the subscription_events table are sequences *)
(* of rows (the index is the generated primary key "id").  Every await in  *)
(* the service code is a step boundary, so that requests interleave at the *)
(* same places as in the program.                                          *)
(***************************************************************************)
EXTENDS Integers, Sequences, FiniteSets, TLC

VARIABLES
  subscriptions,   \* table subscriptions, a sequence of rows
  events,          \* table subscription_events, a sequence of rows
  now,             \* the wall clock (new Date())
  pc,              \* per request slot: where the request is
  op,              \* per request slot: the request being served
  last,            \* the request that completed last, and its response
  hits,            \* express-rate-limit: requests counted in the current window
  env,             \* process.env: the two webhook secrets
  vIn,             \* verifyWebhookSignature under test: its arguments
  vOut             \* verifyWebhookSignature under test: its result

vars == <<subscriptions, events, now, pc, op, last, hits, env, vIn, vOut>>

----------------------------------------------------------------------------
(* Bounds *)

MaxTime   == 1     \* the clock runs 0..MaxTime
MaxRows   == 2     \* rows in subscriptions
MaxEvents == 1     \* rows in subscription_events

\* two request slots: any two requests may overlap
Procs == {1, 2}

----------------------------------------------------------------------------
(* Values *)

NULL   == "null"      \* SQL NULL / JS undefined of a string column or field
NoDate == -1          \* SQL NULL / JS null of a timestamp

Users == {"u1", "u2"}

MONTHLY  == "monthly_subscription"
YEARLY   == "yearly_subscription"
LIFETIME == "lifetime_subscription"

\* config.subscriptionPlans
subscriptionPlans == [monthly |-> MONTHLY, yearly |-> YEARLY, lifetime |-> LIFETIME]

\* product ids a client or a store may send; the last one is not configured
ProductIds == {MONTHLY, YEARLY, LIFETIME, "unlisted_product"}

TransactionIds == {"tA", "tB"}

Platforms == {"ios"}

\* now.setMonth(now.getMonth() + 1) and now.setFullYear(now.getFullYear() + 1),
\* in clock units
MonthLen == 1
YearLen  == 12

----------------------------------------------------------------------------
(* Rows *)

\* a row of subscriptions with every column the service code writes or reads
SubscriptionRow(u, plan, prod, rcpt, plat, pdate, exp, life, act, txn, upd) ==
  [ user_id        |-> u,
    plan           |-> plan,
    product_id     |-> prod,
    receipt        |-> rcpt,
    platform       |-> plat,
    purchase_date  |-> pdate,
    expiry_date    |-> exp,
    is_lifetime    |-> life,
    is_active      |-> act,
    transaction_id |-> txn,
    updated_at     |-> upd,
    trial_end_date |-> NoDate,
    refunded       |-> FALSE,
    refund_date    |-> NoDate ]

\* indices of the rows matching .eq('user_id', userId)
RowsOf(tbl, u) == { i \in 1..Len(tbl) : tbl[i].user_id = u }

\* .eq(column, value): a filter on a missing (undefined) value matches no row
EqFilter(colValue, v) == v # NULL /\ colValue = v

\* a write that replaces the table by the one row: the rows written by
\* others are lost
UpsertMutReplace(tbl, row) == <<row>>

\* .upsert(values) with no onConflict: the conflict target is the primary key
\* id, which the values never carry, so the row is inserted with a fresh id
Upsert(tbl, row) == Append(tbl, row)

\* .update(changes).eq(...).eq(...): the rows at the indexes in matching are
\* replaced by their rewritten versions in changed
UpdateWhere(tbl, matching, changed) ==
  [ i \in 1..Len(tbl) |-> IF i \in matching THEN changed[i] ELSE tbl[i] ]

\* .select('*').eq('user_id', userId).single(): exactly one row, or an error
SingleOk(tbl, u) == Cardinality(RowsOf(tbl, u)) = 1
SingleRow(tbl, u) == tbl[CHOOSE i \in RowsOf(tbl, u) : TRUE]

----------------------------------------------------------------------------
(* Status view *)

NoView ==
  [ isActive |-> FALSE, plan |-> NULL, expiryDate |-> NoDate,
    isLifetime |-> FALSE, isTrialActive |-> FALSE, trialEndDate |-> NoDate ]

\* a view whose isActive looks at the expiry date alone
StatusViewMutNoLifetime(data, t) ==
  [ isActive      |-> (data.expiry_date # NoDate /\ data.expiry_date > t),
    plan          |-> data.plan,
    expiryDate    |-> data.expiry_date,
    isLifetime    |-> data.is_lifetime,
    isTrialActive |-> (data.trial_end_date # NoDate /\ data.trial_end_date > t),
    trialEndDate  |-> data.trial_end_date ]

\* the view getSubscriptionStatus derives from the row it fetched, at time t
StatusView(data, t) ==
  [ isActive      |-> (data.is_lifetime
                        \/ (data.expiry_date # NoDate /\ data.expiry_date > t)),
    plan          |-> data.plan,
    expiryDate    |-> data.expiry_date,
    isLifetime    |-> data.is_lifetime,
    isTrialActive |-> (data.trial_end_date # NoDate /\ data.trial_end_date > t),
    trialEndDate  |-> data.trial_end_date ]

----------------------------------------------------------------------------
(* Webhook payloads and body texts *)

\* payload.data.transactionInfo / payload.data.subscriptionNotification /
\* payload.subscriptionNotification: absent, or an object with these fields
Absent == [ present |-> FALSE, a |-> NULL, b |-> NULL, c |-> NULL, type |-> 0 ]
Obj(a, b, c, type) == [ present |-> TRUE, a |-> a, b |-> b, c |-> c, type |-> type ]

\* the parsed JSON body of a webhook request (req.body).
\*   transactionInfo:  a = originalTransactionId, b = productId, c = transactionId
\*   dataSubscriptionNotification (payload.data.subscriptionNotification):
\*                     a = purchaseToken, b = subscriptionId, c = orderId
\*   subscriptionNotification: a = purchaseToken, b = subscriptionId,
\*                     type = notificationType (a number)
Body(nt, data, ti, sp, mt, dsn, sn, otp, n) ==
  [ notificationType |-> nt, data |-> data, transactionInfo |-> ti,
    signedPayload |-> sp, messageType |-> mt,
    dataSubscriptionNotification |-> dsn, subscriptionNotification |-> sn,
    oneTimeProductNotification |-> otp,
    userId |-> n.userId, productId |-> n.productId,
    transactionId |-> n.transactionId,
    originalTransactionId |-> n.originalTransactionId,
    occurredAt |-> n.occurredAt ]

\* {} : what express.json() leaves in req.body when it parsed nothing
EmptyBody ==
  Body(NULL, FALSE, Absent, FALSE, NULL, Absent, Absent, FALSE,
       [ userId |-> NULL, productId |-> NULL, transactionId |-> NULL,
         originalTransactionId |-> NULL, occurredAt |-> 0 ])

\* a store-A (apple) notification of type nt for user u: transaction txn of
\* lineage orig for product prod
AppleBody(nt, u, prod, txn, orig, at) ==
  Body(nt, TRUE, Obj(orig, prod, txn, 0), TRUE, NULL, Absent, Absent, FALSE,
       [ userId |-> u, productId |-> NULL, transactionId |-> NULL,
         originalTransactionId |-> NULL, occurredAt |-> at ])

\* a store-B (google) notification with a messageType
GoogleBody(mt, u, prod, txn, at) ==
  Body(NULL, TRUE, Absent, FALSE, mt, Obj(txn, prod, txn, 0), Absent, FALSE,
       [ userId |-> u, productId |-> NULL, transactionId |-> NULL,
         originalTransactionId |-> NULL, occurredAt |-> at ])

\* the bytes of a request body: a JSON text in compact form (what
\* JSON.stringify prints), the same JSON with insignificant white space,
\* a text that is not JSON, or no bytes at all
Text(form, json) == [ form |-> form, json |-> json ]

EmptyText     == Text("empty", EmptyBody)
MalformedText == Text("malformed", EmptyBody)

\* JSON.stringify(body)
Stringify(body) == Text("compact", body)

\* JSON.parse as express.json() applies it; only called on well-formed texts
Parse(text) == text.json

IsWellFormed(text) == text.form \in {"compact", "spaced"}

----------------------------------------------------------------------------
(* webhook.utils: verifyWebhookSignature *)

Secrets == {"", "apple", "google", "test-apple-secret", "whsec_1", "whsec_2"}

\* crypto.createHmac('sha256', key).update(msg).digest(): an ideal MAC, two
\* digests are equal exactly when key and message are equal
Hmac(key, msg) == [ key |-> key, msg |-> msg ]

\* signature header values.  kind tells how the string is built:
\*   "literal"       the string lit, with no digest in it
\*   "sha256=hex"    'sha256=' followed by the 64 hex digits of digest
\*   "sha256=short"  'sha256=' followed by fewer hex digits of digest
\*   "base64"        the base64 form of digest
\*   "jwt"           a three-part token signed (HS256) with digest.key
\*   "dotted"        three dot-separated parts that are no signed token
Sig(kind, lit, digest) == [ kind |-> kind, lit |-> lit, digest |-> digest ]

NoDigest == Hmac("", EmptyText)

Literal(lit) == Sig("literal", lit, NoDigest)
HexSig(key, msg) == Sig("sha256=hex", "", Hmac(key, msg))
Base64Sig(key, msg) == Sig("base64", "", Hmac(key, msg))
JwtSig(key, msg) == Sig("jwt", "", Hmac(key, msg))

NoSignature == Literal("")

\* signature.startsWith('sha256=')
StartsWithSha256(signature) == signature.kind \in {"sha256=hex", "sha256=short"}

\* Buffer.from(signature).length
ByteLength(signature) ==
  IF signature.kind = "sha256=hex" THEN 71
  ELSE IF signature.kind = "sha256=short" THEN 39
  ELSE 0

\* signature.split('.').length
DotParts(signature) == IF signature.kind \in {"jwt", "dotted"} THEN 3 ELSE 1

\* jwt.verify(token, secret) returns (TRUE) or throws (FALSE)
JwtVerify(token, secret) == token.kind = "jwt" /\ token.digest.key = secret

\* crypto.timingSafeEqual(a, b): "throws" when the lengths differ
TimingSafeEqual(a, b) ==
  IF ByteLength(a) # ByteLength(b) THEN "throws"
  ELSE IF a = b THEN "true" ELSE "false"

\* the body of the try block of verifyWebhookSignature: "true", "false", or
\* "throws" when an exception leaves it
tryVerify(payload, signature, secret) ==
  IF payload.form = "empty" \/ signature = NoSignature \/ secret = ""
    THEN "false"
  ELSE IF secret = "apple"
    THEN IF signature = Base64Sig("test-apple-secret", payload)
           THEN "true" ELSE "false"
  ELSE IF secret = "google"
    THEN \* 'valid-jwt-token': true whether jwt.verify returns or throws
         IF signature = Literal("valid-jwt-token") THEN "true" ELSE "false"
  ELSE IF StartsWithSha256(signature)
    THEN TimingSafeEqual(signature, HexSig(secret, payload))
  ELSE IF DotParts(signature) = 3
    THEN IF JwtVerify(signature, secret) THEN "true" ELSE "false"
  ELSE "false"

\* the outer try/catch of verifyWebhookSignature: whatever the body throws
\* is logged and false is returned
verifyOutcome(payload, signature, secret) ==
  IF tryVerify(payload, signature, secret) = "throws" THEN "false"
  ELSE tryVerify(payload, signature, secret)

verifyWebhookSignature(payload, signature, secret) ==
  verifyOutcome(payload, signature, secret) = "true"

----------------------------------------------------------------------------
(* webhook.utils: parseWebhookEventType, extractSubscriptionDetails *)

parseWebhookEventType(payload, provider) ==
  IF provider = "apple" THEN
    IF payload.notificationType = "CONSUMPTION_REQUEST" THEN "purchased"
    ELSE IF payload.notificationType = "DID_RENEW" THEN "renewed"
    ELSE IF payload.notificationType = "DID_FAIL_TO_RENEW" THEN "expired"
    ELSE IF payload.notificationType = "REFUND" THEN "refunded"
    ELSE "unknown"
  ELSE IF provider = "google" THEN
    IF payload.messageType = "SUBSCRIPTION_PURCHASED" THEN "purchased"
    ELSE IF payload.messageType = "SUBSCRIPTION_RENEWED" THEN "renewed"
    ELSE IF payload.messageType = "SUBSCRIPTION_EXPIRED" THEN "expired"
    ELSE IF payload.messageType = "SUBSCRIPTION_REVOKED" THEN "refunded"
    ELSE IF payload.subscriptionNotification.type = 1 THEN "purchased"
    ELSE IF payload.subscriptionNotification.type = 2 THEN "renewed"
    ELSE IF payload.subscriptionNotification.type = 3 THEN "expired"
    ELSE IF payload.subscriptionNotification.type = 4 THEN "refunded"
    ELSE "unknown"
  ELSE "unknown"

\* the identity fields of the object extractSubscriptionDetails returns;
\* empty = TRUE is the object {} (no key at all), otherwise the three keys
\* exist and NULL is the value undefined
Details(orig, prod, txn) ==
  [ empty |-> FALSE, originalTransactionId |-> orig, productId |-> prod,
    transactionId |-> txn ]

NoDetails ==
  [ empty |-> TRUE, originalTransactionId |-> NULL, productId |-> NULL,
    transactionId |-> NULL ]

\* a || b || c on strings
Or3(a, b, c) == IF a # NULL THEN a ELSE IF b # NULL THEN b ELSE c

extractSubscriptionDetails(payload, provider) ==
  IF provider = "google" /\ payload.messageType = "SUBSCRIPTION_PURCHASED"
     /\ ~payload.data
    THEN NoDetails
  ELSE IF provider = "apple" THEN
    IF payload.data /\ payload.transactionInfo.present
      THEN Details(payload.transactionInfo.a, payload.transactionInfo.b,
                   payload.transactionInfo.c)
      \* signedTransactionInfo is a string: every field read from it is undefined
      ELSE Details(NULL, NULL, NULL)
  ELSE IF provider = "google" THEN
    IF payload.messageType = "SUBSCRIPTION_PURCHASED" /\ payload.data
       /\ payload.dataSubscriptionNotification.a = "test-token"
      THEN Details("789012", "com.corpastroapps.monthly", "789012")
    ELSE IF payload.messageType # NULL
      THEN Details(Or3(payload.dataSubscriptionNotification.a,
                       payload.originalTransactionId, "789012"),
                   Or3(payload.dataSubscriptionNotification.b,
                       payload.productId, "com.corpastroapps.monthly"),
                   Or3(payload.dataSubscriptionNotification.c,
                       payload.transactionId, "789012"))
    ELSE Details(payload.subscriptionNotification.a,
                 payload.subscriptionNotification.b,
                 payload.subscriptionNotification.a)
  ELSE NoDetails

----------------------------------------------------------------------------
(* subscription.controller: the webhook request and its helpers *)

\* a POST to /api/v1/subscription/webhook
Request(json, text, appleId, appleSig, googSig) ==
  [ jsonContentType     |-> json,      \* content-type includes application/json
    text                |-> text,      \* the bytes of the body
    appleVerificationId |-> appleId,   \* header x-apple-verification-id present
    appleSignature      |-> appleSig,  \* header x-apple-signature
    googSignature       |-> googSig ]  \* header x-goog-signature

NoRequest == Request(FALSE, EmptyText, FALSE, NoSignature, NoSignature)

determineProvider(headers, body) ==
  IF headers.appleVerificationId
     \/ (body.notificationType # NULL /\ body.data /\ body.signedPayload)
    THEN "apple"
  ELSE IF headers.googSignature # NoSignature
          \/ body.subscriptionNotification.present
          \/ body.oneTimeProductNotification
    THEN "google"
  ELSE NULL

getWebhookSecret(e, provider) ==
  IF provider = "apple" THEN e.APPLE_WEBHOOK_SECRET
  ELSE IF provider = "google" THEN e.GOOGLE_WEBHOOK_SECRET
  ELSE ""

getSignatureFromHeaders(headers, provider) ==
  IF provider = "apple" THEN headers.appleSignature
  ELSE IF provider = "google" THEN headers.googSignature
  ELSE NoSignature

\* captureRawBody: req.rawBody is set for a JSON content type only (the path
\* of this route includes '/webhook'); otherwise it stays undefined
captureRawBody(req) == IF req.jsonContentType THEN req.text ELSE EmptyText

\* express.json() behind captureRawBody. For a JSON content type
\* captureRawBody has read the request stream to its end before express.json()
\* runs; whether the parser still gets the body (readable) or fails with
\* "stream is not readable" depends on the body-parser of the build. A text
\* that does not parse is an error, an empty body is skipped.
expressJson(req, readable) ==
  IF ~req.jsonContentType \/ req.text.form = "empty" THEN "next"
  ELSE IF ~readable THEN "stream.not.readable"
  ELSE IF req.text.form = "malformed" THEN "entity.parse.failed"
  ELSE "next"

ParsedBody(req) ==
  IF req.jsonContentType /\ IsWellFormed(req.text) THEN Parse(req.text)
  ELSE EmptyBody

\* handleWebhook: req.rawBody || JSON.stringify(body)
RawBodyOf(req) ==
  IF captureRawBody(req).form # "empty" THEN captureRawBody(req)
  ELSE Stringify(ParsedBody(req))

\* handleWebhook: the handler the switch on eventType selects
HandlerFor(eventType) ==
  IF eventType \in {"INITIAL_BUY", "DID_RENEW", "RENEWAL", "INTERACTIVE_RENEWAL",
                    "SUBSCRIPTION_PURCHASED", "SUBSCRIPTION_RENEWED"}
    THEN "purchased"
  ELSE IF eventType \in {"EXPIRED", "DID_FAIL_TO_RENEW", "GRACE_PERIOD",
                         "SUBSCRIPTION_EXPIRED", "SUBSCRIPTION_CANCELED"}
    THEN "expired"
  ELSE IF eventType \in {"REFUND", "REVOKE"}
    THEN "refunded"
  ELSE "none"

\* handleWebhook: { ...body, provider, ...subscriptionDetails } as the
\* handlers read it; a key of the details overrides the body's, also when
\* its value is undefined
MergedNotification(body, details) ==
  [ userId |-> body.userId,
    productId |-> IF details.empty THEN body.productId ELSE details.productId,
    transactionId |->
      IF details.empty THEN body.transactionId ELSE details.transactionId,
    originalTransactionId |->
      IF details.empty THEN body.originalTransactionId
      ELSE details.originalTransactionId,
    occurredAt |-> body.occurredAt ]

----------------------------------------------------------------------------
(* Requests, notifications and responses *)

\* the fields the handlers read from a notification object; occurredAt is the
\* provider's timestamp, carried by the payload and read by no handler
Notification(u, prod, txn, orig, at) ==
  [ userId |-> u, productId |-> prod, transactionId |-> txn,
    originalTransactionId |-> orig, occurredAt |-> at ]

NoNotification == Notification(NULL, NULL, NULL, NULL, 0)

\* the notifications given to the handlers for user u.  e names the event as
\* (transactionId, originalTransactionId, occurredAt):
\*   tA of lineage tA, stamped 0 or 1; tB of its own lineage tB;
\*   one that names no lineage
Purchases(u) ==
  { Notification(u, MONTHLY, "tA", "tA", 1),
    Notification(u, MONTHLY, "tB", "tB", 0),
    Notification(NULL, MONTHLY, "tA", "tA", 0),
    Notification(u, NULL, "tA", "tA", 0) }

Expiries(u) ==
  { Notification(u, MONTHLY, "tA", "tA", 1),
    Notification(NULL, MONTHLY, "tA", "tA", 0) }

Refunds(u) ==
  { Notification(u, MONTHLY, "tA", "tA", 0),
    Notification(u, MONTHLY, "tA", NULL, 1),
    Notification(NULL, MONTHLY, "tA", "tA", 0) }

\* the request a slot is serving
Op(name, n, rcpt, plat, via, req) ==
  [ name |-> name, n |-> n, receipt |-> rcpt, platform |-> plat, via |-> via,
    req |-> req ]

NoOp == Op("none", NoNotification, NULL, NULL, "direct", NoRequest)

\* res.status(code).json(...) or the value a service function returned:
\* status 0 is a plain return of a function that sends no response
Response(code, body, message, view) ==
  [ status |-> code, body |-> body, message |-> message, view |-> view ]

NoResult == Response(0, "none", "", NoView)
Returned == Response(0, "void", "", NoView)

\* an error object: an ApiError, a ZodError or any other Error
Err(type, statusCode, message) ==
  [ type |-> type, statusCode |-> statusCode, message |-> message ]

\* the response errorHandler sends for the error given to next()
errorHandler(err) ==
  IF err.type = "ApiError"
    THEN Response(err.statusCode, "error", err.message, NoView)
  ELSE IF err.type = "ZodError"
    THEN Response(400, "error", "Validation error", NoView)
  ELSE Response(500, "error", "Internal server error", NoView)

\* throw new ApiError(statusCode, message) in a controller or in the service:
\* the controller's catch passes it to next(), errorHandler answers
ApiError(code, message) == errorHandler(Err("ApiError", code, message))

\* res.status(200).json(view)
Ok200(view) == Response(200, "view", "", view)

----------------------------------------------------------------------------
(* subscription.service *)

\* a status read that reports the stored active flag
getSubscriptionStatusMutFlag(tbl, userId, t, dbOk) ==
  IF ~dbOk \/ ~SingleOk(tbl, userId)
    THEN ApiError(500, "Failed to fetch subscription status")
    ELSE Ok200([StatusView(SingleRow(tbl, userId), t)
                  EXCEPT !.isActive = SingleRow(tbl, userId).is_active])

\* getSubscriptionStatus(userId) at time t; dbOk is the outcome of the query.
\* .single() reports an error unless exactly one row matches, so the
\* "no data" default of the source is reached by no query result.
getSubscriptionStatus(tbl, userId, t, dbOk) ==
  IF ~dbOk \/ ~SingleOk(tbl, userId)
    THEN ApiError(500, "Failed to fetch subscription status")
    ELSE Ok200(StatusView(SingleRow(tbl, userId), t))

\* a mapping that takes every unlisted product id for the monthly plan
PlanOfMutAny(productId) ==
  IF productId = subscriptionPlans.yearly THEN YEARLY
  ELSE IF productId = subscriptionPlans.lifetime THEN LIFETIME
  ELSE MONTHLY

\* validateReceipt: product id -> plan
PlanOf(productId) ==
  IF productId = subscriptionPlans.monthly THEN MONTHLY
  ELSE IF productId = subscriptionPlans.yearly THEN YEARLY
  ELSE IF productId = subscriptionPlans.lifetime THEN LIFETIME
  ELSE NULL

\* validateReceipt: expiry date of a plan bought at time t
ExpiryOf(plan, t) ==
  IF plan = LIFETIME THEN NoDate
  ELSE IF plan = MONTHLY THEN t + MonthLen
  ELSE IF plan = YEARLY THEN t + YearLen
  ELSE NoDate

\* validateReceipt: the values it upserts
ReceiptRow(userId, receipt, productId, platform, t) ==
  SubscriptionRow(userId, PlanOf(productId), productId, receipt, platform, t,
                  ExpiryOf(PlanOf(productId), t), PlanOf(productId) = LIFETIME,
                  TRUE, NULL, t)

\* handleSubscriptionPurchased: the values it upserts
PurchasedRow(n, t) ==
  SubscriptionRow(n.userId, NULL, n.productId, NULL, NULL, NoDate, NoDate,
                  FALSE, TRUE, n.transactionId, t)

\* a filter on the product alone: the rows of every user match
ExpiredMatchesMutAnyUser(n, row) == EqFilter(row.product_id, n.productId)

\* handleSubscriptionExpired: the update
ExpiredMatches(n, row) ==
  row.user_id = n.userId /\ EqFilter(row.product_id, n.productId)

\* an update that also clears the plan and the expiry date of the row
ExpiredChangeMutClears(row, t) ==
  [row EXCEPT !.is_active = FALSE, !.updated_at = t, !.plan = NULL,
              !.expiry_date = NoDate]

ExpiredChange(row, t) == [row EXCEPT !.is_active = FALSE, !.updated_at = t]

\* handleSubscriptionRefunded: the update
RefundedMatches(n, row) ==
  /\ row.user_id = n.userId
  /\ IF n.originalTransactionId # NULL
       THEN EqFilter(row.transaction_id, n.originalTransactionId)
       ELSE EqFilter(row.product_id, n.productId)

RefundedChange(row, t) ==
  [row EXCEPT !.is_active = FALSE, !.refunded = TRUE, !.refund_date = t,
              !.updated_at = t]

\* handleSubscriptionRefunded: the audit row it inserts
RefundEvent(n, t) ==
  [ user_id |-> n.userId, event_type |-> "refund", product_id |-> n.productId,
    transaction_id |-> n.originalTransactionId, created_at |-> t,
    metadata |-> n ]

----------------------------------------------------------------------------
(* Initial state *)

\* process.env of the deployments considered: each secret unset or set
Envs ==
  { [ APPLE_WEBHOOK_SECRET |-> a, GOOGLE_WEBHOOK_SECRET |-> g ] :
      a \in {"", "whsec_1"}, g \in {"", "whsec_2"} }

NoVerifyInput == [ payload |-> EmptyText, signature |-> NoSignature, secret |-> "" ]

\* a completed request and its response
Completed(o, r) == [ op |-> o, result |-> r ]

InitCommon ==
  /\ subscriptions = << >>
  /\ events = << >>
  /\ now = 0
  /\ pc = [ p \in Procs |-> "idle" ]
  /\ op = [ p \in Procs |-> NoOp ]
  /\ last = Completed(NoOp, NoResult)
  /\ hits = 0

Init ==
  /\ InitCommon
  /\ env = [ APPLE_WEBHOOK_SECRET |-> "whsec_1", GOOGLE_WEBHOOK_SECRET |-> "whsec_2" ]
  /\ vIn = NoVerifyInput
  /\ vOut = "none"

----------------------------------------------------------------------------
(* Steps shared by the requests *)

\* the request o of slot p ends with response / return value r
Finish(p, o, r) ==
  /\ pc' = [pc EXCEPT ![p] = "idle"]
  /\ op' = [op EXCEPT ![p] = NoOp]
  /\ last' = Completed(o, r)

\* the request o of slot p goes on at label after an await
Await(p, o, label) ==
  /\ pc' = [pc EXCEPT ![p] = label]
  /\ op' = [op EXCEPT ![p] = o]
  /\ UNCHANGED last

\* what a handler's caller sees when the handler returns: handleWebhook then
\* sends res.status(200).json({ status: 'ok' })
HandlerReturn(via) ==
  IF via = "webhook" THEN Response(200, "ok", "", NoView) ELSE Returned

\* time passes
Tick ==
  /\ now < MaxTime
  /\ now' = now + 1
  /\ UNCHANGED <<subscriptions, events, pc, op, last, hits, env, vIn, vOut>>

----------------------------------------------------------------------------
(* Client endpoints: controller and service *)

\* the bodies of POST /validate sent by the users in U: every configured
\* product, and one request for each way of being invalid
ValidateInputsOf(U) ==
  { [ userId |-> u, receipt |-> "receipt-1", productId |-> prod, platform |-> "ios" ] :
      u \in U, prod \in {MONTHLY, LIFETIME} }
  \cup { [ userId |-> NULL, receipt |-> "receipt-1", productId |-> MONTHLY, platform |-> "ios" ],
         [ userId |-> "u1", receipt |-> NULL, productId |-> MONTHLY, platform |-> "ios" ],
         [ userId |-> "u1", receipt |-> "receipt-1", productId |-> NULL, platform |-> "ios" ],
         [ userId |-> "u1", receipt |-> "receipt-1", productId |-> MONTHLY, platform |-> NULL ],
         [ userId |-> "u1", receipt |-> "receipt-1", productId |-> "unlisted_product",
           platform |-> "ios" ] }

\* POST /validate: validateSubscription, then validateReceipt up to the await
\* of the upsert
validateSubscription(p, Inputs) ==
  /\ pc[p] = "idle"
  /\ \E in \in Inputs, dbOk \in BOOLEAN :
       LET o == Op("validate", Notification(in.userId, in.productId, NULL, NULL, 0),
                   in.receipt, in.platform, "direct", NoRequest)
       IN
       IF in.userId = NULL
         THEN Finish(p, o, ApiError(401, "User ID not found"))
              /\ UNCHANGED subscriptions
       ELSE IF in.receipt = NULL \/ in.productId = NULL \/ in.platform = NULL
         THEN Finish(p, o, ApiError(400, "Receipt, productId, and platform are required"))
              /\ UNCHANGED subscriptions
       ELSE IF PlanOf(in.productId) = NULL
         THEN Finish(p, o, ApiError(400, "Invalid product ID"))
              /\ UNCHANGED subscriptions
       ELSE IF ~dbOk
         THEN Finish(p, o, ApiError(500, "Failed to save subscription"))
              /\ UNCHANGED subscriptions
       ELSE /\ Len(subscriptions) < MaxRows
            /\ subscriptions' =
                 Upsert(subscriptions,
                        ReceiptRow(in.userId, in.receipt, in.productId, in.platform, now))
            /\ Await(p, o, "read_status")
  /\ UNCHANGED <<events, now, hits, env, vIn, vOut>>

\* the "return await getSubscriptionStatus(userId)" that ends validateReceipt
\* and syncSubscriptionStatus
readStatus(p) ==
  /\ pc[p] = "read_status"
  /\ \E dbOk \in BOOLEAN :
       Finish(p, op[p], getSubscriptionStatus(subscriptions, op[p].n.userId, now, dbOk))
  /\ UNCHANGED <<subscriptions, events, now, hits, env, vIn, vOut>>

\* GET /status: the controller getSubscriptionStatus
getSubscriptionStatusRequest(p, U) ==
  /\ pc[p] = "idle"
  /\ \E userId \in U \cup {NULL}, dbOk \in BOOLEAN :
       LET o == Op("status", Notification(userId, NULL, NULL, NULL, 0),
                   NULL, NULL, "direct", NoRequest)
       IN
       IF userId = NULL
         THEN Finish(p, o, ApiError(401, "User ID not found"))
         ELSE Finish(p, o, getSubscriptionStatus(subscriptions, userId, now, dbOk))
  /\ UNCHANGED <<subscriptions, events, now, hits, env, vIn, vOut>>

\* POST /sync: syncSubscription, then syncSubscriptionStatus up to the await
\* of its own select
syncSubscription(p, U) ==
  /\ pc[p] = "idle"
  /\ \E userId \in U \cup {NULL}, dbOk \in BOOLEAN :
       LET o == Op("sync", Notification(userId, NULL, NULL, NULL, 0),
                   NULL, NULL, "direct", NoRequest)
       IN
       IF userId = NULL
         THEN Finish(p, o, ApiError(401, "User ID not found"))
       ELSE IF ~dbOk \/ ~SingleOk(subscriptions, userId)
         THEN Finish(p, o, ApiError(500, "Failed to fetch subscription for sync"))
       ELSE Await(p, o, "read_status")
  /\ UNCHANGED <<subscriptions, events, now, hits, env, vIn, vOut>>

----------------------------------------------------------------------------
(* Notification handlers of subscription.service *)

\* a handler is called directly with any notification (slot idle), or by
\* handleWebhook with the notification it built (slot "dispatched")
Called(p, name) ==
  \/ pc[p] = "idle"
  \/ (pc[p] = "dispatched" /\ op[p].name = name)

InputsOf(p, N) == IF pc[p] = "idle" THEN N ELSE {op[p].n}

handleSubscriptionPurchased(p, N) ==
  /\ Called(p, "purchased")
  /\ \E n \in InputsOf(p, N), dbOk \in BOOLEAN :
       LET o == Op("purchased", n, NULL, NULL, op[p].via, op[p].req) IN
       /\ IF n.userId = NULL \/ n.productId = NULL
            THEN UNCHANGED subscriptions
          ELSE IF ~dbOk
            \* the result of the upsert is not looked at
            THEN UNCHANGED subscriptions
          ELSE /\ Len(subscriptions) < MaxRows
               /\ subscriptions' = Upsert(subscriptions, PurchasedRow(n, now))
       /\ Finish(p, o, HandlerReturn(op[p].via))
  /\ UNCHANGED <<events, now, hits, env, vIn, vOut>>

handleSubscriptionExpired(p, N) ==
  /\ Called(p, "expired")
  /\ \E n \in InputsOf(p, N), dbOk \in BOOLEAN :
       LET o == Op("expired", n, NULL, NULL, op[p].via, op[p].req) IN
       /\ IF n.userId = NULL \/ ~dbOk
            THEN UNCHANGED subscriptions
            ELSE subscriptions' =
                   UpdateWhere(subscriptions,
                     { i \in 1..Len(subscriptions) :
                         ExpiredMatches(n, subscriptions[i]) },
                     [ i \in 1..Len(subscriptions) |->
                         ExpiredChange(subscriptions[i], now) ])
       /\ Finish(p, o, HandlerReturn(op[p].via))
  /\ UNCHANGED <<events, now, hits, env, vIn, vOut>>

\* handleSubscriptionRefunded up to the await of the audit insert
handleSubscriptionRefunded(p, N) ==
  /\ Called(p, "refunded")
  /\ \E n \in InputsOf(p, N), dbOk \in BOOLEAN :
       LET o == Op("refunded", n, NULL, NULL, op[p].via, op[p].req) IN
       IF n.userId = NULL \/ ~dbOk
         THEN /\ UNCHANGED subscriptions
              /\ Finish(p, o, HandlerReturn(op[p].via))
         ELSE /\ Len(events) + Cardinality({q \in Procs : pc[q] = "refund_audit"})
                   < MaxEvents
              /\ subscriptions' =
                   UpdateWhere(subscriptions,
                     { i \in 1..Len(subscriptions) :
                         RefundedMatches(n, subscriptions[i]) },
                     [ i \in 1..Len(subscriptions) |->
                         RefundedChange(subscriptions[i], now) ])
              /\ Await(p, o, "refund_audit")
  /\ UNCHANGED <<events, now, hits, env, vIn, vOut>>

\* handleSubscriptionRefunded from the audit insert to its end; the result of
\* the insert is not looked at
refundAudit(p) ==
  /\ pc[p] = "refund_audit"
  /\ \E dbOk \in BOOLEAN :
       events' = IF dbOk THEN Append(events, RefundEvent(op[p].n, now)) ELSE events
  /\ Finish(p, op[p], HandlerReturn(op[p].via))
  /\ UNCHANGED <<subscriptions, now, hits, env, vIn, vOut>>

----------------------------------------------------------------------------
(* The webhook endpoint behind the middleware chain of app.ts *)

\* rateLimit({ max: 100 }) on /api
RateLimitMax == 100

\* the 15 minute window of the limiter ends
WindowReset ==
  /\ hits > 0
  /\ hits' = 0
  /\ UNCHANGED <<subscriptions, events, now, pc, op, last, env, vIn, vOut>>

\* POST /api/v1/subscription/webhook: captureRawBody, express.json(),
\* apiLimiter, then handleWebhook up to the await of the handler it selects
handleWebhook(p, Requests) ==
  /\ pc[p] = "idle"
  /\ \E req \in Requests, readable \in BOOLEAN :
       LET body      == ParsedBody(req)
           rawBody   == RawBodyOf(req)
           provider  == determineProvider(req, body)
           secret    == getWebhookSecret(env, provider)
           signature == getSignatureFromHeaders(req, provider)
           eventType == parseWebhookEventType(body, provider)
           details   == extractSubscriptionDetails(body, provider)
           o         == Op("webhook", MergedNotification(body, details),
                           NULL, NULL, "webhook", req)
           Reply(message) ==
             Finish(p, o, Response(200, IF message = "" THEN "ok" ELSE "error",
                                   message, NoView))
       IN
       IF expressJson(req, readable) # "next"
         \* body-parser's error reaches errorHandler before the limiter runs
         THEN /\ Finish(p, o, errorHandler(Err(expressJson(req, readable),
                                               IF readable THEN 400 ELSE 500,
                                               "Bad Request")))
              /\ UNCHANGED hits
       ELSE
         /\ hits' = IF hits <= RateLimitMax THEN hits + 1 ELSE hits
         /\ IF hits >= RateLimitMax
              THEN Finish(p, o, Response(429, "error", "Too many requests", NoView))
            ELSE IF provider = NULL THEN Reply("Unknown provider")
            ELSE IF secret = "" THEN Reply("Configuration error")
            ELSE IF signature = NoSignature THEN Reply("Missing signature")
            ELSE IF ~verifyWebhookSignature(rawBody, signature, secret)
              THEN Reply("Invalid signature")
            ELSE IF HandlerFor(eventType) = "none" THEN Reply("")
            ELSE Await(p, [o EXCEPT !.name = HandlerFor(eventType)], "dispatched")
  /\ UNCHANGED <<subscriptions, events, now, env, vIn, vOut>>

----------------------------------------------------------------------------
(* The service under concurrent requests *)

\* a request takes the first free slot: slot 2 is used only while slot 1 is
\* busy, which loses no interleaving of two requests
FirstFree(p) == \A q \in Procs : q < p => pc[q] # "idle"

Start(p) == pc[p] = "idle" => FirstFree(p)

Next ==
  \/ \E p \in Procs :
       /\ Start(p)
       /\ \/ validateSubscription(p, ValidateInputsOf({"u1"}))
          \/ readStatus(p)
          \/ getSubscriptionStatusRequest(p, {"u1"})
          \/ syncSubscription(p, {"u1"})
          \/ handleSubscriptionPurchased(p, Purchases("u1"))
          \/ handleSubscriptionExpired(p, Expiries("u1"))
          \/ handleSubscriptionRefunded(p, Refunds("u1"))
          \/ refundAudit(p)
  \/ Tick

Spec == Init /\ [][Next]_vars

----------------------------------------------------------------------------
(* The webhook endpoint alone *)

\* notification bodies for user u1 and the monthly product: the store-A
\* lifecycle INITIAL_BUY (tA, lineage tA), DID_RENEW (tB, lineage tA) and
\* REFUND, a CONSUMPTION_REQUEST, a store-B purchase, and a body of no known
\* shape
WebhookBodies ==
  { AppleBody("INITIAL_BUY", "u1", MONTHLY, "tA", "tA", 0),
    AppleBody("DID_RENEW", "u1", MONTHLY, "tB", "tA", 0),
    AppleBody("REFUND", "u1", MONTHLY, "tB", "tA", 0),
    AppleBody("CONSUMPTION_REQUEST", "u1", MONTHLY, "tA", "tA", 0),
    GoogleBody("SUBSCRIPTION_PURCHASED", "u1", MONTHLY, "tA", 0),
    EmptyBody }

WebhookTexts ==
  { Stringify(b) : b \in WebhookBodies }
  \cup { Text("spaced", AppleBody("INITIAL_BUY", "u1", MONTHLY, "tA", "tA", 0)),
         MalformedText, EmptyText }

\* the signature header a sender computes over text t
SignatureOver(how, t) ==
  IF how = "hex" THEN HexSig("whsec_1", t)
  ELSE IF how = "base64" THEN Base64Sig("whsec_1", t)
  ELSE IF how = "hex, other key" THEN HexSig("whsec_2", t)
  ELSE IF how = "jwt" THEN JwtSig("whsec_2", t)
  ELSE NoSignature

\* requests with a JSON content type: every text with the store-A header,
\* unsigned or signed for store A in both encodings under the configured
\* secret and in hex under another one; every text without that header,
\* signed in hex for store A or carrying the store-B token; and the store-A
\* notifications under another content type
WebhookRequests ==
  { Request(TRUE, t, TRUE, SignatureOver(how, t), NoSignature) :
      t \in WebhookTexts, how \in {"none", "hex", "base64", "hex, other key"} }
  \cup { Request(TRUE, t, FALSE, SignatureOver("hex", t), NoSignature) :
           t \in WebhookTexts }
  \cup { Request(TRUE, t, FALSE, NoSignature, SignatureOver("jwt", t)) :
           t \in WebhookTexts }
  \cup { Request(FALSE, Stringify(b), TRUE, SignatureOver("hex", Stringify(b)),
                 NoSignature) :
           b \in WebhookBodies }

InitIngress ==
  /\ InitCommon
  /\ env \in Envs
  /\ vIn = NoVerifyInput
  /\ vOut = "none"

NextIngress ==
  \/ \E p \in Procs : Start(p) /\ handleWebhook(p, WebhookRequests)
  \/ WindowReset

SpecIngress == InitIngress /\ [][NextIngress]_vars

----------------------------------------------------------------------------
(* verifyWebhookSignature on its own *)

VerifyTexts ==
  { EmptyText, Stringify(EmptyBody), Text("spaced", EmptyBody) }

VerifySignatures ==
  { NoSignature, Literal("valid-jwt-token"), Literal("invalid-jwt-token"),
    Literal("some-signature"), Sig("dotted", "a.b.c", NoDigest) }
  \cup { Sig(kind, "", Hmac(k, m)) :
           kind \in {"sha256=hex", "sha256=short", "base64", "jwt"},
           k \in Secrets \ {""}, m \in VerifyTexts \ {EmptyText} }

VerifyInputs ==
  [ payload : VerifyTexts, signature : VerifySignatures, secret : Secrets ]

InitVerify ==
  /\ InitCommon
  /\ env = [ APPLE_WEBHOOK_SECRET |-> "whsec_1", GOOGLE_WEBHOOK_SECRET |-> "whsec_2" ]
  /\ vIn \in VerifyInputs
  /\ vOut = "none"

Verify ==
  /\ vOut = "none"
  /\ vOut' = verifyOutcome(vIn.payload, vIn.signature, vIn.secret)
  /\ UNCHANGED <<subscriptions, events, now, pc, op, last, hits, env, vIn>>

SpecVerify == InitVerify /\ [][Verify]_vars

----------------------------------------------------------------------------
(* The normalizer on bounded payloads *)

AppleTypes ==
  { "INITIAL_BUY", "DID_RENEW", "INTERACTIVE_RENEWAL", "CONSUMPTION_REQUEST",
    "EXPIRED", "DID_FAIL_TO_RENEW", "GRACE_PERIOD", "REFUND", "REVOKE",
    "UNKNOWN_TYPE", "PRICE_INCREASE", NULL }

GoogleTypes ==
  { "SUBSCRIPTION_PURCHASED", "SUBSCRIPTION_RENEWED", "SUBSCRIPTION_EXPIRED",
    "SUBSCRIPTION_CANCELED", "SUBSCRIPTION_REVOKED", "SUBSCRIPTION_PAUSED", NULL }

\* subscriptionNotification.notificationType of a store-B notification; the
\* first value stands for an absent one, the last for a number the switch
\* does not list
GoogleNumbers == 0..5

\* store-A payloads of every type with all identity fields, with no
\* productId, with no transaction ids, and with no transactionInfo at all;
\* store-B payloads of every messageType and notification number, and of
\* every messageType with no data object
NormalizeBodies ==
  { AppleBody(nt, "u1", "monthly_subscription", "tB", "tA", 0) : nt \in AppleTypes }
  \cup { AppleBody(nt, "u1", NULL, "tB", "tA", 0) : nt \in AppleTypes }
  \cup { AppleBody(nt, "u1", "monthly_subscription", NULL, NULL, 0) : nt \in AppleTypes }
  \cup { Body(nt, TRUE, Absent, TRUE, NULL, Absent, Absent, FALSE,
              Notification("u1", NULL, NULL, NULL, 0)) : nt \in AppleTypes }
  \cup { Body(NULL, mt # NULL, Absent, FALSE, mt,
              IF mt # NULL THEN Obj("tA", "monthly_subscription", "tA", 0) ELSE Absent,
              IF k > 0 THEN Obj("tA", "monthly_subscription", NULL, k) ELSE Absent,
              FALSE, Notification("u1", NULL, NULL, NULL, 0)) :
           mt \in GoogleTypes, k \in GoogleNumbers }
  \cup { Body(NULL, FALSE, Absent, FALSE, mt, Absent, Absent, FALSE,
              Notification("u1", NULL, NULL, NULL, 0)) :
           mt \in GoogleTypes \ {NULL} }

NormalizeInputs == [ payload : NormalizeBodies, provider : {"apple", "google"} ]

NoNormalized == [ eventType |-> "none", details |-> NoDetails ]

InitNormalize ==
  /\ InitCommon
  /\ env = [ APPLE_WEBHOOK_SECRET |-> "whsec_1", GOOGLE_WEBHOOK_SECRET |-> "whsec_2" ]
  /\ vIn \in NormalizeInputs
  /\ vOut = NoNormalized

\* handleWebhook's two calls of the normalizer on the parsed body
Normalize ==
  /\ vOut = NoNormalized
  /\ vOut' = [ eventType |-> parseWebhookEventType(vIn.payload, vIn.provider),
               details   |-> extractSubscriptionDetails(vIn.payload, vIn.provider) ]
  /\ UNCHANGED <<subscriptions, events, now, pc, op, last, hits, env, vIn>>

SpecNormalize == InitNormalize /\ [][Normalize]_vars

----------------------------------------------------------------------------
(* Properties *)

\* a webhook request got its response in this step
WebhookAnswered ==
  /\ last'.op.via = "webhook"
  /\ (last' # last \/ hits' # hits)

\* the signature of webhook request req verifies under the secrets e
ValidlySigned(req, e) ==
  LET provider == determineProvider(req, ParsedBody(req)) IN
  /\ provider # NULL
  /\ verifyWebhookSignature(RawBodyOf(req),
                            getSignatureFromHeaders(req, provider),
                            getWebhookSecret(e, provider))

\* the last completed request is a validly signed store-A notification of
\* type nt that was acknowledged with 200 / ok
Acknowledged(nt) ==
  /\ last.op.via = "webhook"
  /\ ParsedBody(last.op.req).notificationType = nt
  /\ determineProvider(last.op.req, ParsedBody(last.op.req)) = "apple"
  /\ ValidlySigned(last.op.req, env)
  /\ last.result.status = 200
  /\ last.result.body = "ok"

\* the rows of user u
UserRows(u) == { subscriptions[i] : i \in RowsOf(subscriptions, u) }

\* C1: every response of the webhook endpoint has HTTP status 200, whatever
\* the request and whatever came before it.
C1_WebhookAlways200 ==
  last.op.via = "webhook" => last.result.status = 200

\* a handler ran its database call for notification n in this step: the one
\* step of the purchased and expired handlers, the first step of the refunded
\* handler
HandlerStep(name, n) ==
  \/ /\ name \in {"purchased", "expired"}
     /\ last'.op.name = name /\ last'.op.n = n
     /\ pc' = pc /\ now' = now
  \/ /\ name = "refunded"
     /\ \E p \in Procs : /\ pc[p] = "idle" /\ pc'[p] = "refund_audit"
                         /\ op'[p].name = name /\ op'[p].n = n

\* the refunded handler ran its audit insert for notification n in this step
AuditStep(n) ==
  \E p \in Procs : pc[p] = "refund_audit" /\ pc'[p] = "idle" /\ op[p].n = n

\* notification n of kind name is the last one that completed, and its
\* effect is in the tables
LastApplied(name, n) ==
  /\ last.op.name = name /\ last.op.n = n /\ last.op.via = "direct"
  /\ n.userId # NULL
  /\ name = "purchased" =>
       \E row \in UserRows(n.userId) :
         row.product_id = n.productId /\ row.transaction_id = n.transactionId
  /\ name = "refunded" =>
       \E i \in 1..Len(events) : events[i].metadata = n

HandlerInputs == Purchases("u1") \cup Expiries("u1") \cup Refunds("u1")

\* C2: a notification applied a second time (same user, transaction and kind)
\* leaves the subscription rows and the audit trail as the first application
\* left them.
C2_ReplayChangesNothing ==
  [][ \A name \in {"purchased", "expired", "refunded"}, n \in HandlerInputs :
        LastApplied(name, n) =>
          /\ HandlerStep(name, n) => subscriptions' = subscriptions
          /\ (name = "refunded" /\ AuditStep(n)) => events' = events ]_vars

\* C3: an expired notification of lineage A changes no row that was acquired
\* through another lineage B, also for the same user and product.
C3_ExpiredKeepsOtherLineage ==
  [][ \A n \in HandlerInputs, i \in 1..Len(subscriptions) :
        ( /\ HandlerStep("expired", n)
          /\ n.originalTransactionId # NULL
          /\ subscriptions[i].transaction_id # NULL
          /\ subscriptions[i].transaction_id # n.originalTransactionId )
        => subscriptions'[i] = subscriptions[i] ]_vars

\* the last completed request is an applied notification for n's user and
\* lineage, stamped stamp by the provider
LastOfLineage(n, stamp) ==
  \E name \in {"purchased", "expired", "refunded"} :
    /\ LastApplied(name, last.op.n)
    /\ last.op.n.userId = n.userId
    /\ last.op.n.originalTransactionId = n.originalTransactionId
    /\ last.op.n.occurredAt = stamp

\* C5: on an active subscription a refunded notification not older than the
\* last applied event makes the subscription refunded and not active; an
\* older one changes nothing.
C5_RefundPrecedence ==
  [][ \A n \in HandlerInputs, stamp \in 0..MaxTime :
        ( /\ HandlerStep("refunded", n)
          /\ LastOfLineage(n, stamp)
          /\ \E row \in UserRows(n.userId) : row.is_active )
        => IF n.occurredAt >= stamp
             THEN \A i \in RowsOf(subscriptions, n.userId) :
                    subscriptions[i].is_active =>
                      (subscriptions'[i].refunded /\ ~subscriptions'[i].is_active)
             ELSE subscriptions' = subscriptions ]_vars

\* C6: a notification that arrives after a later one of its lineage has been
\* applied is rejected, so that any order of delivery ends in the state of the
\* chronological order.
C6_LateArrivalRejected ==
  [][ \A name \in {"purchased", "expired", "refunded"}, n \in HandlerInputs,
         stamp \in 0..MaxTime :
        ( /\ HandlerStep(name, n)
          /\ LastOfLineage(n, stamp)
          /\ n.occurredAt < stamp )
        => subscriptions' = subscriptions ]_vars

\* C7: through the webhook endpoint, a correctly signed INITIAL_BUY for the
\* monthly product makes the subscription active, monthly, expiring a month
\* ahead; a correctly signed DID_RENEW keeps it active under the new
\* transaction; a correctly signed REFUND makes it refunded and not active.
C7_StoreALifecycle ==
  /\ Acknowledged("INITIAL_BUY") =>
       \E row \in UserRows(last.op.n.userId) :
         /\ row.is_active /\ row.plan = MONTHLY
         /\ row.expiry_date >= now + MonthLen
  /\ Acknowledged("DID_RENEW") =>
       \E row \in UserRows(last.op.n.userId) :
         /\ row.is_active /\ row.expiry_date >= now + MonthLen
         /\ row.transaction_id = last.op.n.transactionId
  /\ Acknowledged("REFUND") =>
       \E row \in UserRows(last.op.n.userId) : row.refunded /\ ~row.is_active

\* C8: no row is active and refunded at once, and the status read reports no
\* refunded subscription as active.
C8_ActiveExcludesRefunded ==
  /\ \A i \in 1..Len(subscriptions) :
       ~(subscriptions[i].is_active /\ subscriptions[i].refunded)
  /\ \A u \in Users :
       (SingleOk(subscriptions, u) /\ SingleRow(subscriptions, u).refunded)
         => ~getSubscriptionStatus(subscriptions, u, now, TRUE).view.isActive

\* C9: a successful receipt validation with the lifetime product returns
\* isLifetime, no expiry date and isActive; every status read of a user whose
\* subscription is the lifetime one reports isActive, at the time of the read
\* and at every later clock value.
C9_LifetimeStaysActive ==
  /\ ( /\ last.op.name = "validate"
       /\ last.op.n.productId = subscriptionPlans.lifetime
       /\ last.result.status = 200 )
     => ( /\ last.result.view.isLifetime
          /\ last.result.view.expiryDate = NoDate
          /\ last.result.view.isActive )
  /\ ( /\ last.op.name \in {"status", "sync"}
       /\ last.result.status = 200
       /\ last.result.view.isLifetime )
     => last.result.view.isActive
  /\ \A u \in Users, t \in now..(MaxTime + YearLen) :
       ( /\ SingleOk(subscriptions, u)
         /\ SingleRow(subscriptions, u).product_id = subscriptionPlans.lifetime
         /\ SingleRow(subscriptions, u).receipt # NULL )
       => getSubscriptionStatus(subscriptions, u, t, TRUE).view.isActive

\* a status read answered 200 with the lifetime subscription after the clock
\* had moved past the purchase
C9_LifetimeReadLater ==
  /\ last.op.name = "status"
  /\ last.result.status = 200
  /\ last.result.view.isLifetime
  /\ last.result.view.isActive
  /\ SingleOk(subscriptions, last.op.n.userId)
  /\ SingleRow(subscriptions, last.op.n.userId).purchase_date < now

\* C10: every validly signed webhook notification appends exactly one row to
\* subscription_events.
C10_OneAuditRowPerNotification ==
  [][ ( /\ WebhookAnswered
        /\ ValidlySigned(last'.op.req, env)
        /\ last'.result.status = 200 )
      => Len(events') = Len(events) + 1 ]_vars

\* C4: for a non-empty secret, verification accepts the HMAC-SHA256 of the
\* body under that secret in hex with the sha256= prefix and in base64, and
\* rejects that signature for any other body.
C4_StoreASignature ==
  (vOut # "none" /\ vIn.secret # "") =>
    /\ vIn.signature \in { HexSig(vIn.secret, vIn.payload),
                          Base64Sig(vIn.secret, vIn.payload) }
         => vOut = "true"
    /\ (\E m \in VerifyTexts :
          /\ m # vIn.payload
          /\ vIn.signature \in { HexSig(vIn.secret, m), Base64Sig(vIn.secret, m) })
         => vOut = "false"

\* the guards of handleWebhook stop request req under the secrets e: the
\* provider's secret is not configured, the signature header is missing, or
\* the signature does not verify
StoppedByGuards(req, e) ==
  LET provider == determineProvider(req, ParsedBody(req)) IN
  /\ provider # NULL
  /\ \/ getWebhookSecret(e, provider) = ""
     \/ getSignatureFromHeaders(req, provider) = NoSignature
     \/ ~verifyWebhookSignature(RawBodyOf(req),
                                getSignatureFromHeaders(req, provider),
                                getWebhookSecret(e, provider))

\* C11: a webhook request whose secret is not configured, whose signature is
\* missing or does not verify changes no subscription row, appends no audit
\* row, and is answered 200 with body status 'error'.
C11_UnverifiedHasNoEffect ==
  [][ (WebhookAnswered /\ StoppedByGuards(last'.op.req, env))
      => /\ subscriptions' = subscriptions
         /\ events' = events
         /\ last'.result.status = 200
         /\ last'.result.body = "error" ]_vars

\* C12: for every non-empty body, every secret and every signature string,
\* verification of a store-B signature returns true exactly when the token
\* verifies cryptographically against the secret.
C12_StoreBSignature ==
  (vOut # "none" /\ vIn.payload.form # "empty" /\ ~StartsWithSha256(vIn.signature))
    => (vOut = "true" <=> JwtVerify(vIn.signature, vIn.secret))

\* a signature that is neither 'sha256=' with a full hex digest, nor a base64
\* digest, nor a token of three dot-separated parts
Unrecognised(signature) == signature.kind \in {"literal", "sha256=short"}

\* C13: verification returns a boolean for every body, signature and secret,
\* and returns false when one of the three is empty or the signature is in no
\* recognised format.
C13_VerifyTotal ==
  vOut # "none" =>
    /\ vOut \in {"true", "false"}
    /\ ( \/ vIn.payload.form = "empty"
         \/ vIn.signature = NoSignature
         \/ vIn.secret = ""
         \/ Unrecognised(vIn.signature) )
       => vOut = "false"

\* C14: store-A normalization follows the table: INITIAL_BUY, DID_RENEW,
\* INTERACTIVE_RENEWAL and CONSUMPTION_REQUEST give purchased or renewed;
\* EXPIRED, DID_FAIL_TO_RENEW and GRACE_PERIOD give expired; REFUND and REVOKE
\* give refunded; every other type gives unknown.
C14_StoreATable ==
  (vOut # NoNormalized /\ vIn.provider = "apple") =>
    LET nt == vIn.payload.notificationType IN
    IF nt \in {"INITIAL_BUY", "DID_RENEW", "INTERACTIVE_RENEWAL", "CONSUMPTION_REQUEST"}
      THEN vOut.eventType \in {"purchased", "renewed"}
    ELSE IF nt \in {"EXPIRED", "DID_FAIL_TO_RENEW", "GRACE_PERIOD"}
      THEN vOut.eventType = "expired"
    ELSE IF nt \in {"REFUND", "REVOKE"}
      THEN vOut.eventType = "refunded"
    ELSE vOut.eventType = "unknown"

\* C15: store-B normalization of a payload that carries a messageType (and no
\* numeric notification type) follows the table on messageType:
\* SUBSCRIPTION_PURCHASED gives purchased, SUBSCRIPTION_RENEWED renewed,
\* SUBSCRIPTION_EXPIRED and SUBSCRIPTION_CANCELED expired, SUBSCRIPTION_REVOKED
\* refunded, every other value unknown.
C15_StoreBTable ==
  ( /\ vOut # NoNormalized /\ vIn.provider = "google"
    /\ vIn.payload.messageType # NULL
    /\ ~vIn.payload.subscriptionNotification.present ) =>
    LET mt == vIn.payload.messageType IN
    IF mt = "SUBSCRIPTION_PURCHASED" THEN vOut.eventType = "purchased"
    ELSE IF mt = "SUBSCRIPTION_RENEWED" THEN vOut.eventType = "renewed"
    ELSE IF mt \in {"SUBSCRIPTION_EXPIRED", "SUBSCRIPTION_CANCELED"}
      THEN vOut.eventType = "expired"
    ELSE IF mt = "SUBSCRIPTION_REVOKED" THEN vOut.eventType = "refunded"
    ELSE vOut.eventType = "unknown"

\* C16: a payload whose identity fields are missing (no productId, or neither
\* transactionId nor originalTransactionId) is normalized to kind unknown.
C16_NoIdentityIsUnknown ==
  ( /\ vOut # NoNormalized
    /\ \/ vOut.details.productId = NULL
       \/ ( /\ vOut.details.transactionId = NULL
            /\ vOut.details.originalTransactionId = NULL ) )
  => vOut.eventType = "unknown"

\* C17: the provider of a webhook request that reached the controller is
\* decided by its headers first: a store-B signature header alone gives
\* store-B, a store-A header alone gives store-A; only a request with no
\* provider header is classified by the shape of its body, and a request that
\* matches nothing is answered 'Unknown provider' with no change.
C17_ProviderByHeadersFirst ==
  (last.op.via = "webhook" /\ last.result.status = 200) =>
    LET req      == last.op.req
        body     == ParsedBody(req)
        provider == determineProvider(req, body)
        headerA  == req.appleVerificationId \/ req.appleSignature # NoSignature
        headerB  == req.googSignature # NoSignature
    IN
    /\ (headerB /\ ~headerA) => provider = "google"
    /\ (headerA /\ ~headerB) => provider = "apple"
    /\ (~headerA /\ ~headerB) =>
         provider =
           IF body.notificationType # NULL /\ body.data /\ body.signedPayload
             THEN "apple"
           ELSE IF body.subscriptionNotification.present
                   \/ body.oneTimeProductNotification
             THEN "google"
           ELSE NULL
    /\ provider = NULL => last.result.message = "Unknown provider"

\* C18: the webhook answers {status: 'ok'} only when the notification was
\* processed: after 'ok' for a purchased or renewed notification the user has
\* an active row, after 'ok' for an expired one no active row, after 'ok' for
\* a refunded one the audit trail has a row of the user.
C18_OkOnlyWhenProcessed ==
  (last.op.via = "webhook" /\ last.result.body = "ok") =>
    LET req  == last.op.req
        kind == parseWebhookEventType(ParsedBody(req),
                                      determineProvider(req, ParsedBody(req)))
        u    == last.op.n.userId
    IN
    /\ kind \in {"purchased", "renewed"} =>
         \E row \in UserRows(u) : row.is_active
    /\ kind = "expired" => \A row \in UserRows(u) : ~row.is_active
    /\ kind = "refunded" =>
         \E i \in 1..Len(events) : events[i].user_id = u

C20_OneRowPerUser ==
  \A u \in Users : Cardinality(RowsOf(subscriptions, u)) <= 1

\* C21: a failed database write inside a handler is tried again: the purchased
\* handler does not return after its first attempt with the notification's
\* row unwritten.
C21_FailedWriteIsRetried ==
  [][ \A n \in HandlerInputs :
        ( /\ HandlerStep("purchased", n)
          /\ n.userId # NULL /\ n.productId # NULL )
        => \E i \in 1..Len(subscriptions') :
             subscriptions'[i] = PurchasedRow(n, now) ]_vars

----------------------------------------------------------------------------
(* Client endpoints: rejections, reads and isolation *)

ClientNames == {"validate", "status", "sync"}

\* a client request that ends in the step that took it up
ClientStep ==
  /\ last'.op.name \in ClientNames
  /\ pc' = pc /\ now' = now

\* request o carries no caller identity
Unauthenticated(o) == o.n.userId = NULL

\* validation request o lacks a field or names a product id that is none of
\* the configured ones
BadValidation(o) ==
  /\ o.name = "validate"
  /\ o.n.userId # NULL
  /\ \/ o.receipt = NULL \/ o.n.productId = NULL \/ o.platform = NULL
     \/ o.n.productId \notin { subscriptionPlans.monthly, subscriptionPlans.yearly,
                               subscriptionPlans.lifetime }

StatusReadStep ==
  \/ last'.op.name = "status" /\ pc' = pc /\ now' = now
  \/ \E p \in Procs : pc[p] = "read_status" /\ pc'[p] = "idle"

\* C23: a status read writes no record, and for a subscription that is not
\* lifetime it reports isActive = false whenever the stored expiry date is
\* not later than the clock at the read, whatever the stored active flag.
C23_StatusReadIsPure ==
  [][ StatusReadStep =>
        /\ subscriptions' = subscriptions /\ events' = events
        /\ ( last'.result.status = 200 =>
               \E row \in UserRows(last'.op.n.userId) :
                 /\ last'.result.view.plan = row.plan
                 /\ ( ~row.is_lifetime /\ row.expiry_date <= now )
                    => last'.result.view.isActive = FALSE ) ]_vars

\* a record past its expiry date and still flagged active was read as inactive
C23_ExpiredByClockReadInactive ==
  /\ last.op.name = "status"
  /\ last.result.status = 200
  /\ last.result.view.isActive = FALSE
  /\ SingleOk(subscriptions, "u1")
  /\ SingleRow(subscriptions, "u1").is_active
  /\ ~SingleRow(subscriptions, "u1").is_lifetime
  /\ SingleRow(subscriptions, "u1").expiry_date # NoDate
  /\ SingleRow(subscriptions, "u1").expiry_date <= now

\* C24: once an expired notification has deactivated a user's record, every
\* status read reports isActive = false for as long as no later purchase,
\* renewal or validation has written the record again (the record is still
\* the deactivated, unrefunded one).
C24_ExpiredReadsInactive ==
  [][ ( StatusReadStep /\ last'.result.status = 200 ) =>
        \A row \in UserRows(last'.op.n.userId) :
          ( ~row.is_active /\ ~row.refunded ) => last'.result.view.isActive = FALSE ]_vars

\* C25: GET /status for a user who has no subscription record is answered
\* 200 with the default view (inactive, no plan, no dates), not with an error.
C25_DefaultViewWithoutRecord ==
  [][ ( /\ last'.op.name = "status" /\ pc' = pc /\ now' = now
        /\ last'.op.n.userId # NULL
        /\ UserRows(last'.op.n.userId) = {} )
      => last'.result = Ok200(NoView) ]_vars

\* the handler the normalized kind of a notification calls for
HandlerOfKind(kind) ==
  IF kind \in {"purchased", "renewed"} THEN "purchased"
  ELSE IF kind = "expired" THEN "expired"
  ELSE IF kind = "refunded" THEN "refunded"
  ELSE "none"

\* C26: a webhook notification that passed signature verification and was
\* acknowledged has been given to the handler of its normalized kind:
\* purchased and renewed to the purchase handler, expired to the expiry
\* handler, refunded to the refund handler; only the kind unknown is
\* acknowledged with no handler called.
C26_KnownKindReachesHandler ==
  (last.op.via = "webhook" /\ last.result.body = "ok") =>
    LET req  == last.op.req
        kind == parseWebhookEventType(ParsedBody(req),
                                      determineProvider(req, ParsedBody(req)))
    IN kind # "unknown" => last.op.name = HandlerOfKind(kind)

\* C27: whenever handleWebhook verifies a signature (the request is answered
\* 'Invalid signature' or passes verification), the payload it verifies is
\* the text of the request body as received, for every content type and for
\* the empty body.
C27_VerifiesReceivedBytes ==
  ( /\ last.op.via = "webhook"
    /\ last.result.status = 200
    /\ last.result.message = "Invalid signature" \/ last.result.body = "ok" )
  => RawBodyOf(last.op.req) = last.op.req.text

\* C28: the view a successful receipt validation returns shows the write of
\* that validation: its plan is the plan of the productId validated and its
\* expiry date is the one computed for that plan at the time of the write,
\* whatever validation or handler update of the same user ran between the
\* write and the read-back.
C28_ValidationReturnsOwnWrite ==
  [][ \A p \in Procs :
        ( /\ pc[p] = "read_status" /\ pc'[p] = "idle"
          /\ op[p].name = "validate"
          /\ last'.result.status = 200 )
        => LET plan == PlanOf(op[p].n.productId)
               view == last'.result.view
           IN /\ last'.op = op[p]
              /\ view.plan = plan
              /\ view.isLifetime = (plan = LIFETIME)
              /\ \E t \in 0..now : view.expiryDate = ExpiryOf(plan, t) ]_vars

\* a validation returned its view after an expired or refunded update of the
\* same user ran between its write and its read-back
C28_UpdateBetweenWriteAndRead ==
  /\ last.op.name = "validate"
  /\ last.result.status = 200
  /\ last.result.view.plan = PlanOf(last.op.n.productId)
  /\ SingleOk(subscriptions, last.op.n.userId)
  /\ ~SingleRow(subscriptions, last.op.n.userId).is_active

\* C29: for a payload with no data object that carries no identity field
\* itself (no subscriptionNotification, no top-level productId or transaction
\* ids), whatever the provider and the messageType, the extracted details
\* hold no originalTransactionId, no transactionId and no productId.
C29_NoInventedIdentity ==
  ( /\ vOut # NoNormalized
    /\ ~vIn.payload.data
    /\ ~vIn.payload.subscriptionNotification.present
    /\ vIn.payload.productId = NULL
    /\ vIn.payload.transactionId = NULL
    /\ vIn.payload.originalTransactionId = NULL )
  => /\ vOut.details.originalTransactionId = NULL
     /\ vOut.details.transactionId = NULL
     /\ vOut.details.productId = NULL

----------------------------------------------------------------------------
(* The service with two users *)

\* one valid request of each kind for every user
ValidationsOfUsers ==
  { [ userId |-> u, receipt |-> "receipt-1", productId |-> MONTHLY, platform |-> "ios" ] :
      u \in Users }

NotificationsOfUsers == { Notification(u, MONTHLY, "tA", "tA", 0) : u \in Users }

NextUsers ==
  \/ \E p \in Procs :
       /\ Start(p)
       /\ \/ validateSubscription(p, ValidationsOfUsers)
          \/ readStatus(p)
          \/ getSubscriptionStatusRequest(p, Users)
          \/ syncSubscription(p, Users)
          \/ handleSubscriptionPurchased(p, NotificationsOfUsers)
          \/ handleSubscriptionExpired(p, NotificationsOfUsers)
          \/ handleSubscriptionRefunded(p, NotificationsOfUsers)
          \/ refundAudit(p)
  \/ Tick

SpecUsers == Init /\ [][NextUsers]_vars

\* the user for whom the operation that takes the step was invoked
StepUser ==
  IF \E p \in Procs : pc'[p] # pc[p] /\ pc'[p] # "idle"
    THEN (CHOOSE o \in { op'[p] : p \in { q \in Procs : pc'[q] # pc[q] } } : TRUE).n.userId
    ELSE last'.op.n.userId

\* the subscription rows and the audit rows of user u, in table order
RecordsOf(tbl, u) ==
  LET OfUser(row) == row.user_id = u IN SelectSeq(tbl, OfUser)

\* C30: a step of an operation invoked for one user leaves the subscription
\* rows and the audit rows of every other user as they were, in every
\* interleaving of the requests of two users.
C30_UserIsolation ==
  [][ \A u \in Users :
        ( now' = now /\ StepUser # u )
        => /\ RecordsOf(subscriptions', u) = RecordsOf(subscriptions, u)
           /\ RecordsOf(events', u) = RecordsOf(events, u) ]_vars

\* an expired notification of u1 deactivated u1's row of the product while
\* u2 holds an active row of the same product
C30_ExpiredBesideOtherUser ==
  /\ last.op.name = "expired"
  /\ last.op.n.userId = "u1"
  /\ \E row \in UserRows("u1") :
       row.product_id = last.op.n.productId /\ ~row.is_active
  /\ \E row \in UserRows("u2") :
       row.product_id = last.op.n.productId /\ row.is_active

====
